---- MODULE Spec2Model ----
(***************************************************************************)
(* wiki-intel (src/index.ts): the six entrypoints overview, search,        *)
(* summary, details, related and batch, their adapters and the upstream    *)
(* requests they issue.  One entrypoint call runs at a time; the upstream  *)
(* (Wikipedia / Wikidata) is the environment: every request may fail, and  *)
(* the body of a successful response is drawn from small sets.             *)
(***************************************************************************)
EXTENDS Integers, Sequences, FiniteSets, TLC

VARIABLES
    ep,             \* entrypoint of the call in progress, or "idle"
    status,         \* "idle", "running", "returned" (handler returned), "failed" (handler threw)
    input,          \* ctx.input of the call
    output,         \* the handler's returned output object
    upstreamFailed, \* history: some upstream request of this call failed
    wikidata,       \* upstream body of wbgetentities for the requested entity
    entPc,          \* related handler, branch getWikidataEntity(...)
    relPc,          \* related handler, branch getRelatedEntities(...)
    requested,      \* ids of the batched label lookup of getRelatedEntities
    labelReqs,      \* history: number of batched label lookups issued
    tasks,          \* batch handler: the per-query async callbacks
    results,        \* batch handler: the array Promise.all fills
    settled,        \* batch handler: number of callbacks fulfilled so far
    srcEntity,      \* related handler: what getWikidataEntity(...) resolved to
    related,        \* related handler: what getRelatedEntities(...) resolved to
    lastDetails     \* the output of the `details` call that preceded a `related` call

vars == <<ep, status, input, output, upstreamFailed, wikidata, entPc, relPc,
          requested, labelReqs, tasks, results, settled, srcEntity, related,
          lastDetails>>

----------------------------------------------------------------------------
(* Bounds of the model *)

\* statements per property in the enumerated upstream entities
MaxStmts == 2
\* distinct entity references of the long statement list (above the cap of 10)
MaxRefs == 11
\* queries of a batch call (the code admits 1..10)
MaxQueries == 2

\* ids = Array.from(relatedIds).slice(0, 10)
RelatedLimit == 10

----------------------------------------------------------------------------
(* JavaScript values that occur as claim values.  A string is a sequence   *)
(* of characters, so that startsWith can be computed.                      *)

Undefined == [t |-> "undefined", s |-> <<>>, id |-> <<>>, time |-> <<>>]
Str(chars) == [t |-> "string", s |-> chars, id |-> <<>>, time |-> <<>>]
\* an object; id and time are its optional string properties (<<>>: absent)
Obj(id, time) == [t |-> "object", s |-> <<>>, id |-> id, time |-> time]

\* Boolean(v), as used by filter(Boolean)
Truthy(v) == v.t = "object" \/ (v.t = "string" /\ v.s # <<>>)

\* v?.id and v?.time
GetId(v) == IF v.t = "object" /\ v.id # <<>> THEN Str(v.id[1]) ELSE Undefined
GetTime(v) == IF v.t = "object" /\ v.time # <<>> THEN Str(v.time[1]) ELSE Undefined

\* typeof v === 'string' && v.startsWith('Q')
StartsWithQ(v) == v.t = "string" /\ Len(v.s) >= 1 /\ v.s[1] = "Q"

DigitChars == <<"0", "1", "2", "3", "4", "5", "6", "7", "8", "9">>
RECURSIVE Digits(_)
Digits(k) == IF k < 10 THEN <<DigitChars[k + 1]>>
             ELSE Digits(k \div 10) \o <<DigitChars[(k % 10) + 1]>>
\* the identifier "Q<k>"
QId(k) == <<"Q">> \o Digits(k)

----------------------------------------------------------------------------
(* Upstream statements: claim = {mainsnak: {datavalue: {type, value}}}     *)

Stmt(type, value) == [mainsnak |-> TRUE, datavalue |-> TRUE, type |-> type, value |-> value]
\* a somevalue / novalue snak: no datavalue
NoValueStmt == [mainsnak |-> TRUE, datavalue |-> FALSE, type |-> "", value |-> Undefined]
\* a statement without mainsnak
NoMainsnakStmt == [mainsnak |-> FALSE, datavalue |-> FALSE, type |-> "", value |-> Undefined]

RefStmt(k) == Stmt("wikibase-entityid", Obj(<<QId(k)>>, <<>>))
RefNoIdStmt == Stmt("wikibase-entityid", Obj(<<>>, <<>>))
TimeStmt == Stmt("time", Obj(<<>>, << <<"+", "1", "8", "7", "9">> >>))
QStringStmt == Stmt("string", Str(<<"Q", ".", "j", "p", "g">>))
EmptyStringStmt == Stmt("string", Str(<<>>))
QuantityStmt == Stmt("quantity", Obj(<<>>, <<>>))
TextStmt == Stmt("monolingualtext", Str(<<"Q", "e", "d">>))

Stmts == {RefStmt(1), RefStmt(2), RefNoIdStmt, TimeStmt, QStringStmt,
          EmptyStringStmt, QuantityStmt, TextStmt, NoValueStmt, NoMainsnakStmt}

RECURSIVE SeqsUpTo(_, _)
SeqsUpTo(S, n) == IF n = 0 THEN {<<>>}
                  ELSE LET shorter == SeqsUpTo(S, n - 1)
                       IN  shorter \cup {Append(q, x) : q \in shorter, x \in S}

\* Q1 .. Qn, then Q1 again
LongRefs(n) == [i \in 1..(n + 1) |-> RefStmt(IF i <= n THEN i ELSE 1)]

StmtLists == SeqsUpTo(Stmts, MaxStmts) \cup {LongRefs(MaxRefs)}

\* entity.claims of the upstream body: property code -> statements.  P31 and
\* P18 are allow-listed, P106 (occupation) is not.
SecondLists == {<<QStringStmt>>, <<RefStmt(2), RefStmt(3)>>}
OtherLists == {<<RefStmt(4)>>, <<RefStmt(1)>>}
UpstreamClaims ==
    { [p \in {"P31"} |-> l] : l \in StmtLists }
    \cup { [p \in {"P31", "P18"} |-> IF p = "P31" THEN l ELSE m] :
             l \in SeqsUpTo(Stmts, 1) \cup {LongRefs(MaxRefs)}, m \in SecondLists }
    \cup { [p \in {"P31", "P106"} |-> IF p = "P31" THEN l ELSE m] :
             l \in SeqsUpTo(Stmts, 1), m \in OtherLists }
    \cup { [p \in {"P106"} |-> m] : m \in OtherLists }
    \cup { [p \in {} |-> <<>>] }

\* the body of a successful wbgetentities response for one id: the entity
\* is in data.entities or it is not
NoEntity == [present |-> FALSE, claims |-> [p \in {} |-> <<>>]]
UpstreamEntities == {NoEntity} \cup {[present |-> TRUE, claims |-> c] : c \in UpstreamClaims}

EntityIds == {QId(1), QId(2)}

----------------------------------------------------------------------------
(* Upstream responses and the fetch helper *)

Null == "null"

\* a response: the request fails on the network, answers a non-2xx status,
\* answers 2xx with an undecodable body, or answers 2xx with a JSON body
Response(kind, body) == [kind |-> kind, body |-> body]
FailureKinds == {"network", "non2xx", "badjson"}

\* fetchJSON: throws unless the response is ok and its body decodes
fetchJSON(resp) == [thrown |-> resp.kind # "ok", data |-> resp.body]

----------------------------------------------------------------------------
(* searchWikidata *)

SearchItem(id, label, description, url) ==
    [id |-> id, label |-> label, description |-> description, url |-> url]
SearchBodies ==
    { [hasSearch |-> FALSE, search |-> <<>>],
      [hasSearch |-> TRUE, search |-> <<>>],
      [hasSearch |-> TRUE, search |-> <<SearchItem(QId(1), "Ada", "", TRUE)>>],
      [hasSearch |-> TRUE, search |-> <<SearchItem(QId(2), "Bob", "person", FALSE),
                                        SearchItem(QId(1), "Ada", "", TRUE)>>] }
SearchResponses == {Response(k, [hasSearch |-> FALSE, search |-> <<>>]) : k \in FailureKinds}
                   \cup {Response("ok", b) : b \in SearchBodies}

\* one mapped hit: description || null, wikipediaUrl only when item.url
MapSearchItem(item) ==
    [id |-> item.id, label |-> item.label,
     description |-> IF item.description # "" THEN item.description ELSE Null,
     hasWikipediaUrl |-> item.url]

\* data.search?.map(...) || []
searchWikidata(resp) ==
    LET f == fetchJSON(resp)
    IN  IF f.thrown THEN [thrown |-> TRUE, hits |-> <<>>]
        ELSE [thrown |-> FALSE,
              hits |-> IF f.data.hasSearch
                       THEN [i \in 1..Len(f.data.search) |-> MapSearchItem(f.data.search[i])]
                       ELSE <<>>]

----------------------------------------------------------------------------
(* getWikipediaSummary *)

\* the page-summary body: not an object (JSON null), or an object whose
\* extract and thumbnail may be missing ("")
PageBody(isObject, title, extract, thumbnail) ==
    [isObject |-> isObject, title |-> title, extract |-> extract, thumbnail |-> thumbnail]
PageBodies == {PageBody(FALSE, "", "", "")}
              \cup {PageBody(TRUE, "Ada", "text", "thumb.png"), PageBody(TRUE, "Ada", "", "")}
PageResponses == {Response(k, PageBody(FALSE, "", "", "")) : k \in FailureKinds}
                 \cup {Response("ok", b) : b \in PageBodies}

\* thrown: the adapter call throws; isNull: it resolves to null
NoSummary == [thrown |-> FALSE, isNull |-> TRUE, title |-> Null, extract |-> Null,
              thumbnail |-> Null]

\* variant of getWikipediaSummary without the try/catch: a failure propagates
getWikipediaSummaryNoCatch(resp) ==
    LET f == fetchJSON(resp)
    IN  IF f.thrown \/ ~f.data.isObject THEN [NoSummary EXCEPT !.thrown = TRUE]
        ELSE [thrown |-> FALSE, isNull |-> FALSE, title |-> f.data.title,
              extract |-> f.data.extract,
              thumbnail |-> IF f.data.thumbnail # "" THEN f.data.thumbnail ELSE Null]

\* try { data = await fetchJSON(url); return {...} } catch (e) { return null }
\* (reading data.title of a body that is no object throws inside the try)
getWikipediaSummary(resp) ==
    LET f == fetchJSON(resp)
    IN  IF f.thrown \/ ~f.data.isObject THEN NoSummary
        ELSE [thrown |-> FALSE, isNull |-> FALSE, title |-> f.data.title,
              extract |-> f.data.extract,
              thumbnail |-> IF f.data.thumbnail # "" THEN f.data.thumbnail ELSE Null]

----------------------------------------------------------------------------
(* getWikidataEntity *)

importantProps == <<"P31", "P279", "P361", "P527", "P17", "P131", "P569", "P570", "P18", "P856">>
propNames == [p \in {importantProps[i] : i \in 1..Len(importantProps)} |->
    CASE p = "P31" -> "instanceOf"
      [] p = "P279" -> "subclassOf"
      [] p = "P361" -> "partOf"
      [] p = "P527" -> "hasParts"
      [] p = "P17" -> "country"
      [] p = "P131" -> "locatedIn"
      [] p = "P569" -> "dateOfBirth"
      [] p = "P570" -> "dateOfDeath"
      [] p = "P18" -> "image"
      [] p = "P856" -> "officialWebsite"]

\* variant of CoerceClaim whose last arm drops the value of an unrecognized type
CoerceClaimStrict(claim) ==
    IF ~claim.datavalue THEN Undefined
    ELSE IF claim.type = "wikibase-entityid" THEN GetId(claim.value)
    ELSE IF claim.type = "time" THEN GetTime(claim.value)
    ELSE IF claim.type = "string" THEN claim.value
    ELSE Undefined

\* the callback of entity.claims[prop].map(...)
CoerceClaim(claim) ==
    IF ~claim.datavalue THEN Undefined
    ELSE IF claim.type = "wikibase-entityid" THEN GetId(claim.value)
    ELSE IF claim.type = "time" THEN GetTime(claim.value)
    ELSE IF claim.type = "string" THEN claim.value
    ELSE claim.value

\* entity.claims[prop].map(...).filter(Boolean)
ClaimValues(stmts) == SelectSeq([i \in 1..Len(stmts) |-> CoerceClaim(stmts[i])], Truthy)

\* variant of KeepProperty without the length test
KeepPropertyAlways(values) == TRUE

\* if (values.length) claims[propNames[prop] || prop] = values
KeepProperty(values) == Len(values) > 0

\* the claims object after the loop has handled importantProps[1..n]: the
\* entries in insertion order
RECURSIVE ExtractClaims(_, _)
ExtractClaims(upClaims, n) ==
    IF n = 0 THEN <<>>
    ELSE LET before == ExtractClaims(upClaims, n - 1)
             prop == importantProps[n]
         IN  IF prop \in DOMAIN upClaims /\ KeepProperty(ClaimValues(upClaims[prop]))
             THEN Append(before, [name |-> propNames[prop], values |-> ClaimValues(upClaims[prop])])
             ELSE before

\* claim.mainsnak is undefined for a statement of a scanned property: reading
\* mainsnak.datavalue throws
ExtractionThrows(upClaims) ==
    \E i \in 1..Len(importantProps) :
        /\ importantProps[i] \in DOMAIN upClaims
        /\ \E j \in 1..Len(upClaims[importantProps[i]]) : ~upClaims[importantProps[i]][j].mainsnak

NoClaims == <<>>

\* variant of getWikidataEntity that catches a failed request and resolves to null
getWikidataEntityCatching(entityId, resp) ==
    LET f == fetchJSON(resp)
    IN  IF f.thrown \/ ~f.data.present
        THEN [outcome |-> "null", id |-> entityId, claims |-> NoClaims]
        ELSE IF ExtractionThrows(f.data.claims)
             THEN [outcome |-> "thrown", id |-> entityId, claims |-> NoClaims]
        ELSE [outcome |-> "entity", id |-> entityId,
              claims |-> ExtractClaims(f.data.claims, Len(importantProps))]

\* outcome "thrown" (the request or the extraction threw), "null" (entity
\* absent from data.entities) or "entity"
getWikidataEntity(entityId, resp) ==
    LET f == fetchJSON(resp)
    IN  IF f.thrown THEN [outcome |-> "thrown", id |-> entityId, claims |-> NoClaims]
        ELSE IF ~f.data.present THEN [outcome |-> "null", id |-> entityId, claims |-> NoClaims]
        ELSE IF ExtractionThrows(f.data.claims)
             THEN [outcome |-> "thrown", id |-> entityId, claims |-> NoClaims]
        ELSE [outcome |-> "entity", id |-> entityId,
              claims |-> ExtractClaims(f.data.claims, Len(importantProps))]

----------------------------------------------------------------------------
(* getRelatedEntities *)

\* every value of every claim list, in Object.values order
RECURSIVE AllValues(_)
AllValues(claims) == IF claims = <<>> THEN <<>>
                     ELSE claims[1].values \o AllValues(Tail(claims))

\* relatedIds.add(v): a Set keeps the first insertion of each value
RECURSIVE SetAdd(_, _)
SetAdd(acc, vals) ==
    IF vals = <<>> THEN acc
    ELSE LET v == Head(vals)
         IN  IF StartsWithQ(v) /\ ~(\E i \in 1..Len(acc) : acc[i] = v.s)
             THEN SetAdd(Append(acc, v.s), Tail(vals))
             ELSE SetAdd(acc, Tail(vals))

relatedIds(claims) == SetAdd(<<>>, AllValues(claims))

\* variant of SliceIds without the cap
SliceIdsAll(all) == all

\* Array.from(relatedIds).slice(0, 10)
SliceIds(all) == SubSeq(all, 1, IF Len(all) < RelatedLimit THEN Len(all) ELSE RelatedLimit)

\* variant of RelatedLookup whose set starts out holding the source entity
RelatedLookupWithSelf(entityId, entity) ==
    IF entity.outcome = "entity"
    THEN SliceIds(SetAdd(<<entityId>>, AllValues(entity.claims)))
    ELSE <<>>

\* the ids getRelatedEntities(entityId) asks labels for, entity being what
\* getWikidataEntity(entityId) resolved to
RelatedLookup(entityId, entity) ==
    IF entity.outcome = "entity" THEN SliceIds(relatedIds(entity.claims)) ELSE <<>>

\* Object.entries(data.entities || {}).map(([id, e]) => ({id, ...}))
RelatedEntries(responseIds) == [i \in 1..Len(responseIds) |-> [id |-> responseIds[i]]]

\* the entities of the batched response: entries for requested ids, in the
\* order requested; the upstream leaves out any of them
RECURSIVE SubSeqBy(_, _, _)
SubSeqBy(ids, keep, i) ==
    IF i > Len(ids) THEN <<>>
    ELSE (IF i \in keep THEN <<ids[i]>> ELSE <<>>) \o SubSeqBy(ids, keep, i + 1)

----------------------------------------------------------------------------
(* The output objects of the handlers.  keys is the set of property names  *)
(* of the returned object.                                                 *)

NoOutput == [keys |-> {}, title |-> Null, entityId |-> <<>>, claims |-> NoClaims,
             query |-> Null, count |-> 0, sourceEntity |-> Null,
             relatedCount |-> 0, relatedEntities |-> <<>>,
             queriesCount |-> 0, foundCount |-> 0, results |-> <<>>]

NoInput == [query |-> Null, title |-> Null, entityId |-> <<>>, queries |-> <<>>]

OverviewOutput(sample) ==
    [NoOutput EXCEPT !.keys = {"service", "description", "capabilities", "sampleSearch",
                               "dataSources", "fetchedAt"},
                     !.results = sample]

\* variant of SearchOutput without the timestamp
SearchOutputNoStamp(query, hits) ==
    [NoOutput EXCEPT !.keys = {"query", "count", "results"},
                     !.query = query, !.count = Len(hits), !.results = hits]

SearchOutput(query, hits) ==
    [NoOutput EXCEPT !.keys = {"query", "count", "results", "fetchedAt"},
                     !.query = query, !.count = Len(hits), !.results = hits]

SummaryKeys == {"title", "description", "extract", "thumbnail", "contentUrls",
                "coordinates", "wikidataId"}

SummaryOutput(title, summary) ==
    IF summary.isNull
    THEN [NoOutput EXCEPT !.keys = {"error", "title"}, !.title = title]
    ELSE [NoOutput EXCEPT !.keys = SummaryKeys \cup {"fetchedAt"}, !.title = summary.title]

EntityKeys == {"id", "label", "description", "aliases", "claims", "sitelinks", "url"}

\* variant of DetailsOutput that leaves the claims out of the returned object
DetailsOutputNoClaims(entityId, entity) ==
    IF entity.outcome = "null"
    THEN [NoOutput EXCEPT !.keys = {"error", "entityId"}, !.entityId = entityId]
    ELSE [NoOutput EXCEPT !.keys = (EntityKeys \ {"claims"}) \cup {"fetchedAt"},
                          !.entityId = entity.id]

DetailsOutput(entityId, entity) ==
    IF entity.outcome = "null"
    THEN [NoOutput EXCEPT !.keys = {"error", "entityId"}, !.entityId = entityId]
    ELSE [NoOutput EXCEPT !.keys = EntityKeys \cup {"fetchedAt"},
                          !.entityId = entity.id, !.claims = entity.claims]

RelatedOutput(entity, rel) ==
    [NoOutput EXCEPT !.keys = {"sourceEntity", "relatedCount", "relatedEntities", "fetchedAt"},
                     !.sourceEntity = IF entity = "entity" THEN "object" ELSE Null,
                     !.relatedCount = Len(rel), !.relatedEntities = rel]

\* results.filter(r => r.found).length
RECURSIVE FoundCount(_)
FoundCount(rs) == IF rs = <<>> THEN 0
                  ELSE (IF Head(rs).found THEN 1 ELSE 0) + FoundCount(Tail(rs))

BatchOutput(queries, rs) ==
    [NoOutput EXCEPT !.keys = {"queriesCount", "foundCount", "results", "fetchedAt"},
                     !.queriesCount = Len(queries), !.foundCount = FoundCount(rs),
                     !.results = rs]

----------------------------------------------------------------------------
(* Initial state: no call in progress *)

NoLastDetails == [valid |-> FALSE, found |-> FALSE, entityId |-> <<>>, claims |-> NoClaims]

Init ==
    /\ ep = "idle"
    /\ status = "idle"
    /\ input = NoInput
    /\ output = NoOutput
    /\ upstreamFailed = FALSE
    /\ wikidata = NoEntity
    /\ entPc = "idle"
    /\ relPc = "idle"
    /\ requested = <<>>
    /\ labelReqs = 0
    /\ tasks = <<>>
    /\ results = <<>>
    /\ settled = 0
    /\ srcEntity = Null
    /\ related = <<>>
    /\ lastDetails = NoLastDetails

relatedVars == <<entPc, relPc, requested, labelReqs, srcEntity, related, lastDetails>>
batchVars == <<tasks, results, settled>>

\* a handler starts
Begin(name, in) ==
    /\ ep = "idle"
    /\ ep' = name
    /\ status' = "running"
    /\ input' = in
    /\ UNCHANGED <<output, upstreamFailed>>

\* a handler that awaits one adapter call ends: it throws or it returns out
Finish(thrown, failed, out) ==
    /\ status' = IF thrown THEN "failed" ELSE "returned"
    /\ output' = IF thrown THEN NoOutput ELSE out
    /\ upstreamFailed' = failed
    /\ UNCHANGED <<ep, input>>

----------------------------------------------------------------------------
(* overview, search, summary *)

Queries == {"a", "b"}
Titles == {"Ada", "Nope"}

OverviewCall ==
    /\ Begin("overview", NoInput)
    /\ UNCHANGED <<wikidata, relatedVars, batchVars>>

OverviewResponse ==
    /\ ep = "overview" /\ status = "running"
    /\ \E resp \in SearchResponses :
         LET sample == searchWikidata(resp)
         IN  Finish(sample.thrown, resp.kind # "ok", OverviewOutput(sample.hits))
    /\ UNCHANGED <<wikidata, relatedVars, batchVars>>

SearchCall ==
    /\ \E q \in Queries : Begin("search", [NoInput EXCEPT !.query = q])
    /\ UNCHANGED <<wikidata, relatedVars, batchVars>>

SearchResponse ==
    /\ ep = "search" /\ status = "running"
    /\ \E resp \in SearchResponses :
         LET found == searchWikidata(resp)
         IN  Finish(found.thrown, resp.kind # "ok", SearchOutput(input.query, found.hits))
    /\ UNCHANGED <<wikidata, relatedVars, batchVars>>

SummaryCall ==
    /\ \E t \in Titles : Begin("summary", [NoInput EXCEPT !.title = t])
    /\ UNCHANGED <<wikidata, relatedVars, batchVars>>

SummaryResponse ==
    /\ ep = "summary" /\ status = "running"
    /\ \E resp \in PageResponses :
         LET summary == getWikipediaSummary(resp)
         IN  Finish(summary.thrown, resp.kind # "ok", SummaryOutput(input.title, summary))
    /\ UNCHANGED <<wikidata, relatedVars, batchVars>>

----------------------------------------------------------------------------
(* details *)

EntityResponses(body) == {Response(k, body) : k \in FailureKinds \cup {"ok"}}

DetailsCall ==
    /\ \E id \in EntityIds : Begin("details", [NoInput EXCEPT !.entityId = id])
    /\ wikidata' \in UpstreamEntities
    /\ UNCHANGED <<relatedVars, batchVars>>

DetailsResponse ==
    /\ ep = "details" /\ status = "running"
    /\ \E resp \in EntityResponses(wikidata) :
         LET entity == getWikidataEntity(input.entityId, resp)
         IN  Finish(entity.outcome = "thrown", resp.kind # "ok",
                    DetailsOutput(input.entityId, entity))
    /\ UNCHANGED <<wikidata, relatedVars, batchVars>>

----------------------------------------------------------------------------
(* related: Promise.all([getWikidataEntity(id), getRelatedEntities(id)])   *)
(* Both branches issue their entity request when the handler starts.       *)

StartBranches ==
    /\ entPc' = "fetch"
    /\ relPc' = "fetchEntity"
    /\ requested' = <<>>
    /\ labelReqs' = 0
    /\ srcEntity' = Null
    /\ related' = <<>>

RelatedCall ==
    /\ \E id \in EntityIds : Begin("related", [NoInput EXCEPT !.entityId = id])
    /\ wikidata' \in UpstreamEntities
    /\ StartBranches
    /\ lastDetails' = NoLastDetails
    /\ UNCHANGED batchVars

\* the round trip: `related` on the identifier a `details` call just returned for
RelatedAfterDetails ==
    /\ ep = "details" /\ status = "returned"
    /\ ep' = "related"
    /\ status' = "running"
    /\ output' = NoOutput
    /\ upstreamFailed' = FALSE
    /\ StartBranches
    /\ lastDetails' = [valid |-> TRUE, found |-> "claims" \in output.keys,
                       entityId |-> input.entityId, claims |-> output.claims]
    /\ UNCHANGED <<input, wikidata, batchVars>>

\* branch 1: getWikidataEntity settles
RelatedEntityResponse ==
    /\ ep = "related" /\ entPc = "fetch"
    /\ \E resp \in EntityResponses(wikidata) :
         LET entity == getWikidataEntity(input.entityId, resp)
         IN  /\ entPc' = IF entity.outcome = "thrown" THEN "failed" ELSE "done"
             /\ srcEntity' = entity.outcome
             /\ upstreamFailed' = (upstreamFailed \/ resp.kind # "ok")
    /\ UNCHANGED <<ep, status, input, output, wikidata, relPc, requested, labelReqs,
                   related, lastDetails, batchVars>>

\* branch 2: the entity request of getRelatedEntities settles; the batched
\* label lookup is issued unless there is nothing to look up
RelatedScan ==
    /\ ep = "related" /\ relPc = "fetchEntity"
    /\ \E resp \in EntityResponses(wikidata) :
         LET entity == getWikidataEntity(input.entityId, resp)
             ids == RelatedLookup(input.entityId, entity)
         IN  /\ upstreamFailed' = (upstreamFailed \/ resp.kind # "ok")
             /\ IF entity.outcome = "thrown"
                THEN relPc' = "failed" /\ UNCHANGED <<requested, labelReqs>>
                ELSE IF entity.outcome = "null" \/ Len(ids) = 0
                THEN relPc' = "done" /\ UNCHANGED <<requested, labelReqs>>
                ELSE /\ relPc' = "fetchLabels"
                     /\ requested' = ids
                     /\ labelReqs' = labelReqs + 1
    /\ UNCHANGED <<ep, status, input, output, wikidata, entPc, srcEntity, related,
                   lastDetails, batchVars>>

\* branch 2: the batched label lookup settles
RelatedLabelsResponse ==
    /\ ep = "related" /\ relPc = "fetchLabels"
    /\ \/ /\ relPc' = "failed"
          /\ upstreamFailed' = TRUE
          /\ UNCHANGED related
       \/ \E keep \in SUBSET (1..Len(requested)) :
            /\ relPc' = "done"
            /\ related' = RelatedEntries(SubSeqBy(requested, keep, 1))
            /\ UNCHANGED upstreamFailed
    /\ UNCHANGED <<ep, status, input, output, wikidata, entPc, requested, labelReqs,
                   srcEntity, lastDetails, batchVars>>

\* Promise.all rejects as soon as one branch has rejected
RelatedReject ==
    /\ ep = "related" /\ status = "running"
    /\ entPc = "failed" \/ relPc = "failed"
    /\ status' = "failed"
    /\ UNCHANGED <<ep, input, output, upstreamFailed, wikidata, relatedVars, batchVars>>

RelatedReturn ==
    /\ ep = "related" /\ status = "running"
    /\ entPc = "done" /\ relPc = "done"
    /\ status' = "returned"
    /\ output' = RelatedOutput(srcEntity, related)
    /\ UNCHANGED <<ep, input, upstreamFailed, wikidata, relatedVars, batchVars>>

----------------------------------------------------------------------------
(* batch: Promise.all(queries.map(async (query) => ...))                   *)

Pending == [query |-> Null, found |-> FALSE, hasEntity |-> FALSE, id |-> <<>>, label |-> Null,
            description |-> Null, summary |-> Null, thumbnail |-> Null, settled |-> FALSE]

\* { query, found: false }
NotFoundResult(query) == [Pending EXCEPT !.query = query, !.settled = TRUE]

\* variant of FoundResult with found: !!summary
FoundResultNeedsSummary(query, hit, summary) ==
    [Pending EXCEPT !.query = query, !.found = ~summary.isNull, !.hasEntity = TRUE,
                    !.settled = TRUE,
                    !.id = hit.id, !.label = hit.label, !.description = hit.description,
                    !.summary = IF ~summary.isNull /\ summary.extract # ""
                                THEN summary.extract ELSE Null,
                    !.thumbnail = IF ~summary.isNull THEN summary.thumbnail ELSE Null]

\* { query, found: true, entity: {id, label, description, summary, thumbnail} }
FoundResult(query, hit, summary) ==
    [Pending EXCEPT !.query = query, !.found = TRUE, !.hasEntity = TRUE, !.settled = TRUE,
                    !.id = hit.id, !.label = hit.label, !.description = hit.description,
                    !.summary = IF ~summary.isNull /\ summary.extract # ""
                                THEN summary.extract ELSE Null,
                    !.thumbnail = IF ~summary.isNull THEN summary.thumbnail ELSE Null]

NoHit == [id |-> <<>>, label |-> Null, description |-> Null, hasWikipediaUrl |-> FALSE]

\* variant of PromiseAllSlot that fills the array in completion order
PromiseAllSlotCompletion(i, done) == done + 1

\* the index of the result array that Promise.all fills when callback i
\* fulfils, done callbacks having fulfilled before it
PromiseAllSlot(i, done) == i

QueryLists == SeqsUpTo(Queries, MaxQueries) \ {<<>>}

\* the map callback runs up to its first await: every search is issued
BatchCall ==
    /\ \E qs \in QueryLists :
         /\ Begin("batch", [NoInput EXCEPT !.queries = qs])
         /\ tasks' = [i \in 1..Len(qs) |->
                        [pc |-> "search", entity |-> NoHit, searchReqs |-> 1,
                         summaryReqs |-> 0, summaryFailed |-> FALSE, order |-> 0]]
         /\ results' = [i \in 1..Len(qs) |-> Pending]
    /\ settled' = 0
    /\ UNCHANGED <<wikidata, relatedVars>>

\* callback i: its search settles
TaskSearchResponse(i) ==
    /\ ep = "batch" /\ tasks[i].pc = "search"
    /\ \E resp \in SearchResponses :
         LET search == searchWikidata(resp)
         IN  /\ upstreamFailed' = (upstreamFailed \/ resp.kind # "ok")
             /\ IF search.thrown
                THEN /\ tasks' = [tasks EXCEPT ![i].pc = "rejected"]
                     /\ UNCHANGED <<results, settled>>
                ELSE IF Len(search.hits) = 0
                THEN /\ tasks' = [tasks EXCEPT ![i].pc = "fulfilled",
                                               ![i].order = settled + 1]
                     /\ results' = [results EXCEPT ![PromiseAllSlot(i, settled)] =
                                       NotFoundResult(input.queries[i])]
                     /\ settled' = settled + 1
                ELSE /\ tasks' = [tasks EXCEPT ![i].pc = "summary",
                                               ![i].entity = search.hits[1],
                                               ![i].summaryReqs = @ + 1]
                     /\ UNCHANGED <<results, settled>>
    /\ UNCHANGED <<ep, status, input, output, wikidata, relatedVars>>

\* callback i: its summary request settles
TaskSummaryResponse(i) ==
    /\ ep = "batch" /\ tasks[i].pc = "summary"
    /\ \E resp \in PageResponses :
         LET summary == getWikipediaSummary(resp)
         IN  /\ upstreamFailed' = (upstreamFailed \/ resp.kind # "ok")
             /\ IF summary.thrown
                THEN /\ tasks' = [tasks EXCEPT ![i].pc = "rejected",
                                               ![i].summaryFailed = (resp.kind # "ok")]
                     /\ UNCHANGED <<results, settled>>
                ELSE /\ tasks' = [tasks EXCEPT ![i].pc = "fulfilled",
                                               ![i].summaryFailed = (resp.kind # "ok"),
                                               ![i].order = settled + 1]
                     /\ results' = [results EXCEPT ![PromiseAllSlot(i, settled)] =
                                       FoundResult(input.queries[i], tasks[i].entity, summary)]
                     /\ settled' = settled + 1
    /\ UNCHANGED <<ep, status, input, output, wikidata, relatedVars>>

\* Promise.all rejects as soon as one callback has rejected
BatchReject ==
    /\ ep = "batch" /\ status = "running"
    /\ \E i \in DOMAIN tasks : tasks[i].pc = "rejected"
    /\ status' = "failed"
    /\ UNCHANGED <<ep, input, output, upstreamFailed, wikidata, relatedVars, batchVars>>

BatchReturn ==
    /\ ep = "batch" /\ status = "running"
    /\ \A i \in DOMAIN tasks : tasks[i].pc = "fulfilled"
    /\ status' = "returned"
    /\ output' = BatchOutput(input.queries, results)
    /\ UNCHANGED <<ep, input, upstreamFailed, wikidata, relatedVars, batchVars>>

----------------------------------------------------------------------------
\* the call is over; the next request finds no state of it
NextRequest ==
    /\ status \in {"returned", "failed"}
    /\ ep' = "idle"
    /\ status' = "idle"
    /\ input' = NoInput
    /\ output' = NoOutput
    /\ upstreamFailed' = FALSE
    /\ wikidata' = NoEntity
    /\ entPc' = "idle"
    /\ relPc' = "idle"
    /\ requested' = <<>>
    /\ labelReqs' = 0
    /\ tasks' = <<>>
    /\ results' = <<>>
    /\ settled' = 0
    /\ srcEntity' = Null
    /\ related' = <<>>
    /\ lastDetails' = NoLastDetails

Next ==
    \/ OverviewCall \/ OverviewResponse
    \/ SearchCall \/ SearchResponse
    \/ SummaryCall \/ SummaryResponse
    \/ DetailsCall \/ DetailsResponse
    \/ RelatedCall \/ RelatedAfterDetails
    \/ RelatedEntityResponse \/ RelatedScan \/ RelatedLabelsResponse
    \/ RelatedReject \/ RelatedReturn
    \/ BatchCall
    \/ \E i \in 1..MaxQueries : i \in DOMAIN tasks /\ TaskSearchResponse(i)
    \/ \E i \in 1..MaxQueries : i \in DOMAIN tasks /\ TaskSummaryResponse(i)
    \/ BatchReject \/ BatchReturn
    \/ NextRequest

Spec == Init /\ [][Next]_vars

----------------------------------------------------------------------------
(* Properties *)

Finished == status \in {"returned", "failed"}

HasKey(claims, name) == \E i \in 1..Len(claims) : claims[i].name = name
ValuesOf(claims, name) == claims[CHOOSE i \in 1..Len(claims) : claims[i].name = name].values

\* the statements the upstream body holds for property p
UpstreamStmts(p) == IF p \in DOMAIN wikidata.claims THEN wikidata.claims[p] ELSE <<>>

\* C1: a batch call that returns gives one result per query, in the order of
\* the queries whatever the order the lookups completed in, and foundCount
\* is the number of results with found = true.
BatchPreservesOrder ==
    (ep = "batch" /\ status = "returned") =>
        /\ Len(output.results) = Len(input.queries)
        /\ \A i \in 1..Len(input.queries) :
             output.results[i].settled /\ output.results[i].query = input.queries[i]
        /\ output.foundCount =
             Cardinality({i \in 1..Len(output.results) : output.results[i].found})
        /\ output.queriesCount = Len(input.queries)

\* a batch of two different queries has returned; the second lookup
\* completed first, and exactly one of the two was found
BatchOutOfOrderWitness ==
    /\ ep = "batch" /\ status = "returned"
    /\ Len(input.queries) = 2
    /\ input.queries[1] # input.queries[2]
    /\ tasks[2].order < tasks[1].order
    /\ output.results[1].found /\ ~output.results[2].found
    /\ output.foundCount = 1

\* C2: a summary call never fails, and when its upstream request failed it
\* returns {error, title} with the requested title.
SummaryNeverThrows ==
    ep = "summary" =>
        /\ status # "failed"
        /\ (status = "returned" /\ upstreamFailed) =>
              /\ output.keys = {"error", "title"}
              /\ output.title = input.title

SummaryNotFoundWitness ==
    /\ ep = "summary" /\ status = "returned" /\ upstreamFailed
    /\ input.title = "Nope"
    /\ output.title = "Nope"

\* C3 as stated: a details call whose upstream request failed returns
\* {error, entityId} instead of failing.
DetailsCatchesFailures ==
    (ep = "details" /\ Finished /\ upstreamFailed) =>
        (status = "returned" /\ output.keys = {"error", "entityId"})

\* C3 amended: only summary converts a failed upstream request to its
\* sentinel.  details returns {error, entityId} exactly for a successful
\* response without the entity, and fails when the request failed, as do
\* overview and search; related never returns once one of its requests failed.
FailurePropagationPolicy ==
    /\ (ep = "summary" /\ Finished /\ upstreamFailed) => status = "returned"
    /\ (ep \in {"details", "search", "overview"} /\ Finished /\ upstreamFailed) =>
          status = "failed"
    /\ (ep = "details" /\ Finished /\ ~upstreamFailed /\ ~wikidata.present) =>
          /\ status = "returned"
          /\ output.keys = {"error", "entityId"}
          /\ output.entityId = input.entityId
    /\ (ep = "details" /\ status = "returned" /\ wikidata.present) =>
          "error" \notin output.keys
    /\ (ep = "related" /\ upstreamFailed) => status # "returned"

DetailsFailsWitness ==
    /\ ep = "details" /\ status = "failed" /\ upstreamFailed
    /\ wikidata.present

\* a statement yields a value under the amended reading of C4
AmendedKeeps(st) ==
    /\ st.datavalue
    /\ CASE st.type = "wikibase-entityid" -> st.value.t = "object" /\ st.value.id # <<>>
         [] st.type = "time" -> st.value.t = "object" /\ st.value.time # <<>>
         [] OTHER -> st.value.t = "object" \/ (st.value.t = "string" /\ st.value.s # <<>>)
AmendedValue(st) ==
    CASE st.type = "wikibase-entityid" -> Str(st.value.id[1])
      [] st.type = "time" -> Str(st.value.time[1])
      [] OTHER -> st.value

\* a statement yields a value under C4 as stated: only the three types do
StatedKeeps(st) ==
    /\ st.datavalue
    /\ CASE st.type = "wikibase-entityid" -> st.value.t = "object" /\ st.value.id # <<>>
         [] st.type = "time" -> st.value.t = "object" /\ st.value.time # <<>>
         [] st.type = "string" -> st.value.t = "string" /\ st.value.s # <<>>
         [] OTHER -> FALSE

SomeMainsnakMissing ==
    \E k \in 1..Len(importantProps) :
        \E j \in 1..Len(UpstreamStmts(importantProps[k])) :
            ~UpstreamStmts(importantProps[k])[j].mainsnak

AllowListedNames == {"instanceOf", "subclassOf", "partOf", "hasParts", "country",
                     "locatedIn", "dateOfBirth", "dateOfDeath", "image", "officialWebsite"}
AllowListedCodes == {"P31", "P279", "P361", "P527", "P17", "P131", "P569", "P570",
                     "P18", "P856"}

\* C5: for a found entity the claims field is present; its keys are among
\* the ten semantic names, one per allow-listed property the entity has
\* statements of at most, each with a non-empty list; an entity without
\* allow-listed statements has the empty map.
ClaimsKeysAllowListed ==
    (ep = "details" /\ status = "returned" /\ "error" \notin output.keys) =>
        /\ "claims" \in output.keys
        /\ \A i \in 1..Len(output.claims) :
             /\ output.claims[i].name \in AllowListedNames
             /\ Len(output.claims[i].values) > 0
             /\ \A j \in 1..Len(output.claims) : output.claims[j].name = output.claims[i].name => j = i
        /\ Len(output.claims) <= Cardinality(AllowListedCodes \cap DOMAIN wikidata.claims)
        /\ (AllowListedCodes \cap DOMAIN wikidata.claims = {}) => output.claims = <<>>

\* details returned for an entity whose only statements are of P106
EmptyClaimsWitness ==
    /\ ep = "details" /\ status = "returned"
    /\ wikidata.present
    /\ DOMAIN wikidata.claims = {"P106"}
    /\ "claims" \in output.keys
    /\ output.claims = <<>>

RelatedIdSet == {output.relatedEntities[i].id : i \in 1..Len(output.relatedEntities)}

\* C6 as stated: no entry of relatedEntities has the id of the source entity.
RelatedExcludesSelf ==
    (ep = "related" /\ status = "returned") => input.entityId \notin RelatedIdSet

\* the entity has an allow-listed statement whose value is the entity itself
SelfReferenced ==
    \E p \in AllowListedCodes : \E j \in 1..Len(UpstreamStmts(p)) :
        LET st == UpstreamStmts(p)[j]
        IN  /\ st.datavalue
            /\ \/ st.type = "wikibase-entityid" /\ st.value.id = <<input.entityId>>
               \/ st.type \notin {"wikibase-entityid", "time"} /\ st.value = Str(input.entityId)

\* C6 amended: an entry of relatedEntities has the id of the source entity
\* only when the entity has an allow-listed statement whose value is the
\* entity itself.
RelatedSelfOnlyIfReferenced ==
    (ep = "related" /\ status = "returned" /\ input.entityId \in RelatedIdSet) =>
        SelfReferenced

\* related returned the source entity among several entries
RelatedSelfWitness ==
    /\ ep = "related" /\ status = "returned"
    /\ SelfReferenced
    /\ input.entityId \in RelatedIdSet
    /\ Len(output.relatedEntities) >= 2

\* C7: related asks labels for at most ten ids, all different and all
\* Q-prefixed, in at most one batched lookup and in none when there is
\* nothing to look up; it returns at most ten entries, one per entity of the
\* lookup's response, and relatedCount is their number.
RelatedAtMostTen ==
    ep = "related" =>
        /\ Len(requested) <= 10
        /\ \A i, j \in 1..Len(requested) : requested[i] = requested[j] => i = j
        /\ \A i \in 1..Len(requested) : requested[i][1] = "Q"
        /\ labelReqs = (IF requested = <<>> THEN 0 ELSE 1)
        /\ labelReqs = 0 => related = <<>>
        /\ {related[i].id : i \in 1..Len(related)} \subseteq
              {requested[i] : i \in 1..Len(requested)}
        /\ status = "returned" =>
              /\ Len(output.relatedEntities) <= 10
              /\ output.relatedCount = Len(output.relatedEntities)
              /\ output.relatedEntities = related

\* related returned ten entries for an entity with more than ten references
RelatedCapWitness ==
    /\ ep = "related" /\ status = "returned"
    /\ Len(UpstreamStmts("P31")) > 10
    /\ Len(requested) = 10
    /\ output.relatedCount = 10

\* the values of the claims map the preceding details call returned
DetailsValues ==
    UNION {{lastDetails.claims[i].values[j] : j \in 1..Len(lastDetails.claims[i].values)} :
              i \in 1..Len(lastDetails.claims)}

\* C8: related called on the identifier a details call has just returned
\* for gives entries whose ids are all values of the claims map details returned.
RoundTrip ==
    (ep = "related" /\ status = "returned" /\ lastDetails.valid) =>
        /\ lastDetails.entityId = input.entityId
        /\ \A id \in RelatedIdSet : lastDetails.found /\ Str(id) \in DetailsValues

RoundTripWitness ==
    /\ ep = "related" /\ status = "returned"
    /\ lastDetails.valid /\ lastDetails.found
    /\ Len(output.relatedEntities) >= 2
    /\ \E v \in DetailsValues : v.t = "string" /\ v.s \notin RelatedIdSet

\* C9 as stated: every returned output has the fetchedAt field.
AlwaysFetchedAt ==
    status = "returned" => "fetchedAt" \in output.keys

\* C9 amended: every returned output has the fetchedAt field, except the
\* not-found outputs of summary and details, which are exactly
\* {error, title} and {error, entityId}.
FetchedAtExceptNotFound ==
    status = "returned" =>
        /\ "fetchedAt" \in output.keys <=> "error" \notin output.keys
        /\ "error" \in output.keys =>
              \/ ep = "summary" /\ output.keys = {"error", "title"}
              \/ ep = "details" /\ output.keys = {"error", "entityId"}
        /\ ep \in {"overview", "search", "related", "batch"} => "fetchedAt" \in output.keys

NotFoundWithoutStampWitness ==
    /\ ep = "details" /\ status = "returned"
    /\ "error" \in output.keys
    /\ "fetchedAt" \notin output.keys

\* C10: inside batch no request is repeated; a failed summary request
\* still gives a found entry with null summary and thumbnail; a search
\* without hit gives {query, found: false} and no summary request; once a
\* search has failed the call never returns and has no output, it fails,
\* and the lookups of the other queries go on.
BatchFailurePropagation ==
    ep = "batch" =>
        /\ \A i \in DOMAIN tasks :
             /\ tasks[i].searchReqs = 1
             /\ tasks[i].summaryReqs = (IF tasks[i].pc = "summary" \/ tasks[i].entity # NoHit
                                        THEN 1 ELSE 0)
             /\ tasks[i].summaryFailed =>
                   /\ tasks[i].pc = "fulfilled"
                   /\ results[i].found
                   /\ results[i].summary = Null /\ results[i].thumbnail = Null
             /\ (tasks[i].pc = "fulfilled" /\ tasks[i].entity = NoHit) =>
                   /\ results[i] = NotFoundResult(input.queries[i])
                   /\ tasks[i].summaryReqs = 0
             /\ (tasks[i].pc = "fulfilled" /\ tasks[i].entity # NoHit) => results[i].found
             /\ tasks[i].pc = "rejected" => tasks[i].summaryReqs = 0
             /\ (status = "failed" /\ tasks[i].pc = "search") => ENABLED TaskSearchResponse(i)
             /\ (status = "failed" /\ tasks[i].pc = "summary") => ENABLED TaskSummaryResponse(i)
        /\ (\E i \in DOMAIN tasks : tasks[i].pc = "rejected") =>
              /\ status \in {"running", "failed"}
              /\ output = NoOutput
              /\ status = "running" => ENABLED BatchReject
        /\ status = "failed" => \E i \in DOMAIN tasks : tasks[i].pc = "rejected"

\* the batch has failed on the search of its first query; the lookup of the
\* second went on to a found entry whose summary request failed
BatchFailedWitness ==
    /\ ep = "batch" /\ status = "failed"
    /\ Len(input.queries) = 2
    /\ tasks[1].pc = "rejected"
    /\ tasks[2].pc = "fulfilled" /\ tasks[2].summaryFailed
    /\ tasks[2].order = 1
    /\ results[2].found /\ results[2].summary = Null

====
